---- MODULE Spec2Model ----
(***************************************************************************)
(* Model of conan/conanfile.py: the recipe class AosCommonCpp.             *)
(*                                                                         *)
(* The recipe holds two class attributes (settings, generators) and two    *)
(* hook methods, requirements() and build_requirements(), that the         *)
(* dependency resolver invokes.  Each statement of a hook issues one       *)
(* declaration; the declarations issued so far are kept, in call order,    *)
(* in the log `declared`.  A "pkg/version" reference string is kept as the *)
(* record of its two parts (the text before and after the slash).          *)
(***************************************************************************)
EXTENDS Naturals, Sequences, FiniteSets

\* Number of hook invocations the resolver makes in one explored run.
MaxCalls == 4

\* Values the build profile may give to the four settings axes.
OsValues == {"Linux", "Windows"}
CompilerValues == {"gcc", "clang"}
BuildTypeValues == {"Debug", "Release"}
ArchValues == {"x86_64", "armv8"}

VARIABLES
    settings,    \* the recipe's declared settings axes (line 4)
    generators,  \* the recipe's declared generators (line 5)
    profile,     \* value of every settings axis, given by the build profile
    declared,    \* log of the declarations issued, in call order
    invoked,     \* hook methods the resolver has invoked, in call order
    pc           \* "idle", or the line of the next statement to execute

vars == <<settings, generators, profile, declared, invoked, pc>>

Range(s) == {s[i] : i \in DOMAIN s}

Count(x, s) == Cardinality({i \in DOMAIN s : s[i] = x})

\* "name/version"
Ref(name, version) == [name |-> name, version |-> version]

----------------------------------------------------------------------------
\* Class attributes.

ClassSettingsNoArch == <<"os", "compiler", "build_type">>

\* settings = "os", "compiler", "build_type", "arch"
ClassSettings == <<"os", "compiler", "build_type", "arch">>

ClassGeneratorsNoDeps == <<"CMakeToolchain">>

\* generators = "CMakeToolchain", "CMakeDeps"
ClassGenerators == <<"CMakeToolchain", "CMakeDeps">>

Profiles ==
    [os : OsValues, compiler : CompilerValues,
     build_type : BuildTypeValues, arch : ArchValues]

----------------------------------------------------------------------------
\* The two declaration calls the hooks make.

\* self.requires(ref): a linked requirement.
requires(log, ref) ==
    Append(log, [name |-> ref.name, version |-> ref.version, build |-> FALSE])

tool_requires_overriding(log, ref) ==
    Append(SelectSeq(log, LAMBDA d : d.name # ref.name),
           [name |-> ref.name, version |-> ref.version, build |-> TRUE])

\* self.tool_requires(ref): a build-tool-only requirement.
tool_requires(log, ref) ==
    Append(log, [name |-> ref.name, version |-> ref.version, build |-> TRUE])

----------------------------------------------------------------------------
\* Statements of requirements().

requirements_L8_bumping(log) ==
    requires(log, Ref("gtest", IF log = <<>> THEN "1.14.0" ELSE "1.15.0"))

\* self.requires("gtest/1.14.0")
requirements_L8(log) == requires(log, Ref("gtest", "1.14.0"))

requirements_L9_other_version(log) == requires(log, Ref("poco", "1.13.3"))

requirements_L9_on_linux_only(log) ==
    IF profile.os = "Windows" THEN log ELSE requires(log, Ref("poco", "1.13.2"))

\* self.requires("poco/1.13.2")
requirements_L9(log) == requires(log, Ref("poco", "1.13.2"))

requirements_L10_as_tool(log) == tool_requires(log, Ref("grpc", "1.54.3"))

requirements_L10_also_protobuf(log) ==
    tool_requires(requires(log, Ref("grpc", "1.54.3")), Ref("protobuf", "3.21.12"))

\* self.requires("grpc/1.54.3")
requirements_L10(log) == requires(log, Ref("grpc", "1.54.3"))

\* requirements() from call to return.
RunRequirements(log) == requirements_L10(requirements_L9(requirements_L8(log)))

----------------------------------------------------------------------------
\* Statements of build_requirements().

build_requirements_L13_dropped(log) == log

\* self.tool_requires("protobuf/3.21.12")
build_requirements_L13(log) == tool_requires(log, Ref("protobuf", "3.21.12"))

build_requirements_L14_other_version(log) ==
    tool_requires(log, Ref("grpc", "1.54.4"))

\* self.tool_requires("grpc/1.54.3")
build_requirements_L14(log) == tool_requires(log, Ref("grpc", "1.54.3"))

\* build_requirements() from call to return.
RunBuildRequirements(log) == build_requirements_L14(build_requirements_L13(log))

----------------------------------------------------------------------------
\* What the resolver reads back from the log.

LinkedOf(log) == {Ref(d.name, d.version) : d \in {e \in Range(log) : ~e.build}}

ToolOf(log) == {Ref(d.name, d.version) : d \in {e \in Range(log) : e.build}}

Linked == LinkedOf(declared)

Tool == ToolOf(declared)

\* Number of invocations of hook m that have returned.
Completed(m) ==
    IF pc # "idle" /\ invoked[Len(invoked)] = m
    THEN Count(m, invoked) - 1
    ELSE Count(m, invoked)

----------------------------------------------------------------------------
\* State machine.

Init ==
    /\ settings = ClassSettings
    /\ generators = ClassGenerators
    /\ profile \in Profiles
    /\ declared = <<>>
    /\ invoked = <<>>
    /\ pc = "idle"

\* The resolver invokes requirements().
requirements ==
    /\ pc = "idle"
    /\ Len(invoked) < MaxCalls
    /\ invoked' = Append(invoked, "requirements")
    /\ pc' = "L8"
    /\ UNCHANGED <<settings, generators, profile, declared>>

StepL8 ==
    /\ pc = "L8"
    /\ declared' = requirements_L8(declared)
    /\ pc' = "L9"
    /\ UNCHANGED <<settings, generators, profile, invoked>>

StepL9 ==
    /\ pc = "L9"
    /\ declared' = requirements_L9(declared)
    /\ pc' = "L10"
    /\ UNCHANGED <<settings, generators, profile, invoked>>

StepL10 ==
    /\ pc = "L10"
    /\ declared' = requirements_L10(declared)
    /\ pc' = "idle"
    /\ UNCHANGED <<settings, generators, profile, invoked>>

\* The resolver invokes build_requirements().
build_requirements ==
    /\ pc = "idle"
    /\ Len(invoked) < MaxCalls
    /\ invoked' = Append(invoked, "build_requirements")
    /\ pc' = "L13"
    /\ UNCHANGED <<settings, generators, profile, declared>>

StepL13 ==
    /\ pc = "L13"
    /\ declared' = build_requirements_L13(declared)
    /\ pc' = "L14"
    /\ UNCHANGED <<settings, generators, profile, invoked>>

StepL14 ==
    /\ pc = "L14"
    /\ declared' = build_requirements_L14(declared)
    /\ pc' = "idle"
    /\ UNCHANGED <<settings, generators, profile, invoked>>

Step == StepL8 \/ StepL9 \/ StepL10 \/ StepL13 \/ StepL14

Next ==
    \/ requirements
    \/ StepL8
    \/ StepL9
    \/ StepL10
    \/ build_requirements
    \/ StepL13
    \/ StepL14

Spec == Init /\ [][Next]_vars

\* A hook, once invoked, executes its statements one after the other.
FairSpec == Spec /\ WF_vars(Step)

----------------------------------------------------------------------------
\* Properties.

Gtest == Ref("gtest", "1.14.0")

Poco == Ref("poco", "1.13.2")

Grpc == Ref("grpc", "1.54.3")

Protobuf == Ref("protobuf", "3.21.12")

Idle == pc = "idle"

InRequirements == pc \in {"L8", "L9", "L10"}

InBuildRequirements == pc \in {"L13", "L14"}

\* C1: once requirements() has returned, the linked requirements are exactly
\* gtest/1.14.0, poco/1.13.2 and grpc/1.54.3, whatever hooks were invoked
\* before or after it and in whatever order.
C1_LinkedExact ==
    Completed("requirements") >= 1 => Linked = {Gtest, Poco, Grpc}

C1_Witness ==
    /\ Idle
    /\ invoked = <<"build_requirements", "requirements">>
    /\ Linked = {Gtest, Poco, Grpc}

\* C2: once build_requirements() has returned, the build-tool-only
\* requirements are exactly protobuf/3.21.12 and grpc/1.54.3, whatever hooks
\* were invoked before or after it and in whatever order.
C2_ToolExact ==
    Completed("build_requirements") >= 1 => Tool = {Protobuf, Grpc}

C2_Witness ==
    /\ Idle
    /\ invoked = <<"requirements", "build_requirements">>
    /\ Tool = {Protobuf, Grpc}

\* C3: in every reachable state the declared settings axes are exactly os,
\* compiler, build_type and arch, each declared once.
C3_SettingsExact ==
    /\ Range(settings) = {"os", "compiler", "build_type", "arch"}
    /\ Len(settings) = 4

C3_Witness ==
    /\ Completed("requirements") >= 1
    /\ Completed("build_requirements") >= 1
    /\ Range(settings) = {"os", "compiler", "build_type", "arch"}
    /\ DOMAIN profile = Range(settings)

\* C4: in every reachable state the declared generators are exactly
\* CMakeToolchain and CMakeDeps, each declared once.
C4_GeneratorsExact ==
    /\ Range(generators) = {"CMakeToolchain", "CMakeDeps"}
    /\ Len(generators) = 2

C4_Witness ==
    /\ Completed("requirements") >= 1
    /\ Completed("build_requirements") >= 1
    /\ Range(generators) = {"CMakeToolchain", "CMakeDeps"}

\* A first declaration pass, requirements() then build_requirements(), has
\* been made and has returned.
FirstPassDone ==
    /\ Len(invoked) >= 2
    /\ invoked[1] = "requirements"
    /\ invoked[2] = "build_requirements"
    /\ (Len(invoked) > 2 \/ Idle)

\* C5: once a declaration pass (requirements() then build_requirements())
\* has been made, no later step of any further pass changes the linked set
\* or the tool set: every repeated pass ends with the sets of the first.
C5_Idempotent ==
    [][FirstPassDone => (Linked' = Linked /\ Tool' = Tool)]_vars

C5_Witness ==
    /\ Idle
    /\ invoked = <<"requirements", "build_requirements",
                   "requirements", "build_requirements">>
    /\ Len(declared) = 10
    /\ Linked = LinkedOf(RunBuildRequirements(RunRequirements(<<>>)))
    /\ Tool = ToolOf(RunBuildRequirements(RunRequirements(<<>>)))

\* C6: every declaration is a (name, version, is-build-tool) triple whose
\* flag is a boolean; between invocations there are three declarations
\* flagged false per returned requirements() and two flagged true per
\* returned build_requirements(), so one pass makes exactly five.
C6_Tagged ==
    /\ \A d \in Range(declared) :
          /\ DOMAIN d = {"name", "version", "build"}
          /\ d.build \in BOOLEAN
    /\ Idle =>
          /\ Cardinality({i \in DOMAIN declared : ~declared[i].build})
                = 3 * Completed("requirements")
          /\ Cardinality({i \in DOMAIN declared : declared[i].build})
                = 2 * Completed("build_requirements")
    /\ (Idle /\ Completed("requirements") = 1
             /\ Completed("build_requirements") = 1) => Len(declared) = 5

C6_Witness ==
    /\ Idle
    /\ Completed("requirements") = 1
    /\ Completed("build_requirements") = 1
    /\ Len(declared) = 5
    /\ Cardinality({i \in DOMAIN declared : declared[i].build}) = 2

\* C7: every step of requirements(), its invocation included, leaves the
\* tool set, the settings and the generators unchanged; every step of
\* build_requirements() leaves the linked set, the settings and the
\* generators unchanged.
C7_Frame ==
    [][/\ (InRequirements \/ InRequirements') =>
            /\ Tool' = Tool
            /\ settings' = settings
            /\ generators' = generators
       /\ (InBuildRequirements \/ InBuildRequirements') =>
            /\ Linked' = Linked
            /\ settings' = settings
            /\ generators' = generators]_vars

C7_Witness ==
    /\ Idle
    /\ invoked = <<"requirements">>
    /\ Linked # {}
    /\ Tool = {}

\* Each declaration of a hook has been issued once per invocation of it.
AllIssued ==
    /\ Count([name |-> "gtest", version |-> "1.14.0", build |-> FALSE], declared)
          = Count("requirements", invoked)
    /\ Count([name |-> "poco", version |-> "1.13.2", build |-> FALSE], declared)
          = Count("requirements", invoked)
    /\ Count([name |-> "grpc", version |-> "1.54.3", build |-> FALSE], declared)
          = Count("requirements", invoked)
    /\ Count([name |-> "protobuf", version |-> "3.21.12", build |-> TRUE], declared)
          = Count("build_requirements", invoked)
    /\ Count([name |-> "grpc", version |-> "1.54.3", build |-> TRUE], declared)
          = Count("build_requirements", invoked)

\* C8: for every value of the four settings, an invoked hook always returns,
\* its position is always one of its own statements, and whenever no hook is
\* running every invocation made so far has issued each of its declarations
\* exactly once.
C8_NoErrorOutcome ==
    /\ [](pc \in {"idle", "L8", "L9", "L10", "L13", "L14"})
    /\ [](Idle => AllIssued)
    /\ (~Idle ~> Idle)

C8_Witness ==
    /\ Idle
    /\ profile = [os |-> "Windows", compiler |-> "clang",
                  build_type |-> "Debug", arch |-> "armv8"]
    /\ invoked = <<"build_requirements", "requirements", "requirements">>
    /\ AllIssued

\* C9: build_requirements() then requirements() ends with the linked set and
\* the tool set that requirements() then build_requirements() gives, and
\* the other way round.
C9_OrderIndependent ==
    /\ (Idle /\ invoked = <<"build_requirements", "requirements">>) =>
          /\ Linked = LinkedOf(RunBuildRequirements(RunRequirements(<<>>)))
          /\ Tool = ToolOf(RunBuildRequirements(RunRequirements(<<>>)))
    /\ (Idle /\ invoked = <<"requirements", "build_requirements">>) =>
          /\ Linked = LinkedOf(RunRequirements(RunBuildRequirements(<<>>)))
          /\ Tool = ToolOf(RunRequirements(RunBuildRequirements(<<>>)))

C9_Witness ==
    /\ Idle
    /\ invoked = <<"build_requirements", "requirements">>
    /\ Linked = LinkedOf(RunBuildRequirements(RunRequirements(<<>>)))
    /\ Tool = ToolOf(RunBuildRequirements(RunRequirements(<<>>)))
    /\ Linked # {}
    /\ Tool # {}

\* C10: no package name is declared with two different versions, within one
\* list or across the two; grpc, once declared, has version 1.54.3 in both.
C10_VersionConsistent ==
    /\ \A i, j \in DOMAIN declared :
          declared[i].name = declared[j].name
             => declared[i].version = declared[j].version
    /\ \A r \in Linked \cup Tool : r.name = "grpc" => r.version = "1.54.3"

C10_Witness ==
    /\ Grpc \in Linked
    /\ Grpc \in Tool
    /\ \E i, j \in DOMAIN declared :
          /\ declared[i].name = declared[j].name
          /\ declared[i].build # declared[j].build

====
